---------------------------- MODULE Spec2Model ----------------------------
(***************************************************************************)
(* z_validate_utf8 (src/z_validate.c): the AVX2 UTF-8 validator, modelled  *)
(* as the state machine of one call.  A byte is an integer 0..255, a       *)
(* vector (vec_t) is the tuple of its 32 bytes (byte i is At(v, i)), and a *)
(* bit mask (uint32_t / uint64_t) is the set of its set bit positions, so  *)
(* that the 35-bit sums of the source are computed exactly.                *)
(***************************************************************************)
EXTENDS Integers, Sequences, FiniteSets, TLC

\* Width of vec_t in bytes: the loop's stride (len -= 32, data += 32).
W == 32

\* Number of whole chunks of memory the inputs are placed in.
MaxChunks == 2

\* Length of the window of freely chosen bytes placed in the input.
WinLen == 4

Lanes == 0..(W - 1)

\* Byte i, counted from 0, of a vector or of memory.
At(v, i) == v[i + 1]

\* Bytes of memory the call can touch: the last chunk load starts below
\* W * MaxChunks and the reload at data + 31 reaches 31 + 31 bytes further.
MemSize == W * MaxChunks + W - 1

(***************************************************************************)
(* Bit masks as sets of bit positions.                                     *)
(***************************************************************************)
SymDiff(A, B) == (A \ B) \cup (B \ A)

\* x << n on a uint64_t: bits shifted past bit 63 are lost.
Shl(A, n) == {i + n : i \in {j \in A : j + n < 64}}

\* x >> 32 on a uint64_t.
Shr32(A) == {i - 32 : i \in {j \in A : j >= 32}}

\* (uint32_t)x.
Low32(A) == {i \in A : i < 32}

\* a + b on uint64_t, as the carry-save iteration a + b = (a ^ b) + ((a & b) << 1).
RECURSIVE Add(_, _)
Add(A, B) == IF A \cap B = {} THEN A \cup B ELSE Add(SymDiff(A, B), Shl(A \cap B, 1))

\* The number a small mask stands for.
RECURSIVE MaskVal(_)
MaskVal(A) == IF A = {} THEN 0 ELSE LET i == CHOOSE j \in A : TRUE IN 2^i + MaskVal(A \ {i})

\* a & b on bytes.
RECURSIVE BitAnd(_, _)
BitAnd(a, b) == IF a = 0 \/ b = 0 THEN 0 ELSE (a % 2) * (b % 2) + 2 * BitAnd(a \div 2, b \div 2)

(***************************************************************************)
(* The AVX2 intrinsics the function uses.                                  *)
(***************************************************************************)
\* *(vec_t *)(data + addr): the 32 bytes of memory m from addr on.
VecLoad(m, addr) == [j \in 1..W |-> LET i == j - 1 IN At(m, addr + i)]

\* _mm256_set1_epi8(b)
mm256_set1_epi8(b) == [j \in 1..W |-> b]

\* LOOKUP16(...): the 16 table bytes in both 128-bit halves.
LOOKUP16(t) == [j \in 1..W |-> LET i == j - 1 IN At(t, i % 16)]

\* _mm256_permute2x128_si256(a, b, 0x03): low half = high half of b, high half = low half of a.
mm256_permute2x128_si256_03(a, b) == [j \in 1..W |-> LET i == j - 1 IN IF i < 16 THEN At(b, i + 16) ELSE At(a, i - 16)]

\* _mm256_alignr_epi8(a, b, 15): in each 128-bit half, bytes 15..30 of the 32 bytes b:a.
mm256_alignr_epi8_15(a, b) == [j \in 1..W |-> LET i == j - 1 IN IF i % 16 = 0 THEN At(b, i + 15) ELSE At(a, i - 1)]

\* _mm256_movemask_epi8(v): bit i is the top bit of byte i.
mm256_movemask_epi8(v) == {i \in Lanes : At(v, i) >= 128}

\* The 16-bit lane byte i of v lies in, as a number (little endian).
Lane16(v, i) == At(v, i - (i % 2)) + 256 * At(v, i - (i % 2) + 1)

\* Byte i of a vector whose 16-bit lane holds the number x.
LaneByte(x, i) == IF i % 2 = 0 THEN x % 256 ELSE (x \div 256) % 256

\* _mm256_slli_epi16(v, n)
mm256_slli_epi16(v, n) == [j \in 1..W |-> LET i == j - 1 IN LaneByte((Lane16(v, i) * 2^n) % 65536, i)]

\* _mm256_srli_epi16(v, n)
mm256_srli_epi16(v, n) == [j \in 1..W |-> LET i == j - 1 IN LaneByte(Lane16(v, i) \div 2^n, i)]

\* _mm256_and_si256(a, b)
mm256_and_si256(a, b) == [j \in 1..W |-> LET i == j - 1 IN BitAnd(At(a, i), At(b, i))]

\* _mm256_shuffle_epi8(t, idx): a negative index byte gives zero.
mm256_shuffle_epi8(t, idx) == [j \in 1..W |-> LET i == j - 1 IN IF At(idx, i) >= 128 THEN 0 ELSE At(t, (i - (i % 16)) + (At(idx, i) % 16))]

\* _mm256_testz_si256(a, b): 1 iff a & b is all zero.
mm256_testz_si256(a, b) == \A i \in Lanes : BitAnd(At(a, i), At(b, i)) = 0

(***************************************************************************)
(* z_validate.c                                                            *)
(***************************************************************************)
v_shift_left(top, bottom) == LET shl_16 == mm256_permute2x128_si256_03(top, bottom) IN mm256_alignr_epi8_15(top, shl_16)

error_1 == LOOKUP16(<<0, 0, 0, 0, 0, 0, 0, 0, 0, 0, 0, 0, 1, 0, 6, 24>>)

error_2 == LOOKUP16(<<3, 1, 0, 0, 8, 16, 16, 16, 16, 16, 16, 16, 16, 20, 16, 16>>)

error_3 == LOOKUP16(<<17, 17, 17, 17, 17, 17, 17, 17, 19, 27, 29, 29, 25, 25, 25, 25>>)

mask_0F == mm256_set1_epi8(15)

\* a & movemask(v) for a mask a: the bits of a whose byte of v has the top bit set.
AndMovemask(a, v) == {i \in a : At(v, i) >= 128}

\* The masks of the inner loop: <<high, set after pass 1, after pass 2, after pass 3>>,
\* from high = movemask(bytes), set = high and set &= movemask(bytes << n) in pass n.
SetMasks(bytes) ==
    LET high == mm256_movemask_epi8(bytes)
        set_1 == AndMovemask(high, mm256_slli_epi16(bytes, 1))
        set_2 == AndMovemask(set_1, mm256_slli_epi16(bytes, 2))
        set_3 == AndMovemask(set_2, mm256_slli_epi16(bytes, 3))
    IN  <<high, set_1, set_2, set_3>>

\* cont = high ^ set, taken in the pass n = 1.
ContMask(S) == SymDiff(S[1], S[2])

\* A slip in the shift: every leader mask moved forward by one position only.
ShiftedSetByOne(S, n) == Shl(S[n + 1], 1)

\* set << n in the pass n.
ShiftedSet(S, n) == Shl(S[n + 1], n)

\* req after the inner loop: req = last_cont; req += set << n for n = 1, 2, 3.
Req(S, lc) == Add(Add(Add(lc, ShiftedSet(S, 1)), ShiftedSet(S, 2)), ShiftedSet(S, 3))

\* if (!(high | last_cont)) continue;
AsciiOnly(bytes, lc) == mm256_movemask_epi8(bytes) \cup lc = {}

\* The continuation check passes: !(cont != (uint32_t)req).
ContOk(bytes, lc) == LET S == SetMasks(bytes) IN ContMask(S) = Low32(Req(S, lc))

\* The three nibble lookups ANDed together have no bit set: _mm256_testz_si256(e_1 & e_2, e_3).
LookupOk(bytes, shifted_bytes) ==
    LET m_1 == mm256_and_si256(mm256_srli_epi16(shifted_bytes, 4), mask_0F)
        e_1 == mm256_shuffle_epi8(error_1, m_1)
        m_2 == mm256_and_si256(shifted_bytes, mask_0F)
        e_2 == mm256_shuffle_epi8(error_2, m_2)
        m_3 == mm256_and_si256(mm256_srli_epi16(bytes, 4), mask_0F)
        e_3 == mm256_shuffle_epi8(error_3, m_3)
    IN  mm256_testz_si256(mm256_and_si256(e_1, e_2), e_3)

\* A slip in the carry: the continuation bits past the chunk are not kept.
CarryDropped(bytes, lc) == {}

\* A slip in the carry: req >> 31 in place of req >> 32.
CarryShiftedBy31(bytes, lc) == {i - 31 : i \in {j \in Req(SetMasks(bytes), lc) : j >= 31}}

\* last_cont = req >> 32
CarryOut(bytes, lc) == Shr32(Req(SetMasks(bytes), lc))

\* return last_cont == 0
FinalVerdict(lc) == IF lc = {} THEN 1 ELSE 0

\* The loop of z_validate_utf8 from the loop condition on, as a function of the memory m,
\* the remaining length n, the offset d of the data pointer, last_cont and next_bytes.
RECURSIVE Loop(_, _, _, _, _)
Loop(m, n, d, lc, nb) ==
    IF n <= 0 THEN FinalVerdict(lc)
    ELSE IF AsciiOnly(VecLoad(m, d), lc) THEN Loop(m, n - W, d + W, lc, nb)
    ELSE IF ~ContOk(VecLoad(m, d), lc) THEN 0
    ELSE IF ~LookupOk(VecLoad(m, d), nb) THEN 0
    ELSE Loop(m, n - W, d + W, CarryOut(VecLoad(m, d), lc), VecLoad(m, d + 31))

\* z_validate_utf8(data, len), with m the memory from data on.
z_validate_utf8(m, n) == Loop(m, n, 0, {}, v_shift_left(VecLoad(m, 0), mm256_set1_epi8(0)))

(***************************************************************************)
(* The inputs: memory holding ASCII text with one window of chosen bytes,  *)
(* and the length the caller passes.  Memory at and after data[len] is     *)
(* whatever the caller's memory holds there.                               *)
(***************************************************************************)
\* One byte of each class the prefix coding tells apart: ASCII 61, continuation 80,
\* and the leaders C2, ED, F4 of a 2-, 3- and 4-byte sequence.
Reps == {97, 128, 194, 237, 244}

\* The byte sequences the UTF-8 rules single out.
Exemplars ==
    { <<192, 128>>, <<224, 128, 128>>, <<240, 128, 128, 128>>,
      <<237, 160, 128>>, <<237, 191, 191>>, <<244, 144, 128, 128>>,
      <<245, 128, 128, 128>>, <<255>>, <<97, 195, 40>>,
      <<224, 160, 128>>, <<240, 144, 128>>, <<240, 144, 128, 128>>,
      <<104, 101, 108, 108, 111>> }

Windows == [1..WinLen -> Reps] \cup Exemplars

\* Where a window starts: at the start of the buffer, or so that it ends at, straddles
\* or starts at the last chunk boundary (the chunks before it are then ASCII).
Offsets == {0} \cup {W * (MaxChunks - 1) - j : j \in 0..WinLen}

\* Memory: ASCII 'a' with window w placed at offset k.
Place(w, k) == [j \in 1..MemSize |-> IF j - 1 >= k /\ j - 1 < k + Len(w) THEN w[j - k] ELSE 97]

\* The lengths passed with a window at k: the whole chunks that reach the window, the
\* buffer cut before the window's last byte, and the buffer ending with the window.
Lens(w, k) == {W * c : c \in {d \in 1..MaxChunks : W * d > k}} \cup {k + Len(w) - 1, k + Len(w)}

\* Text made of one multi-byte sequence repeated, which crosses every chunk boundary.
Units == {<<194, 128>>, <<237, 128, 128>>, <<244, 128, 128, 128>>}

\* Memory: unit u repeated, starting s bytes into it.
Fill(u, s) == [j \in 1..MemSize |-> u[((j - 1 + s) % Len(u)) + 1]]

VARIABLES
    mem,         \* the caller's memory from the data pointer of the call on
    data,        \* the data pointer, as an offset from its value at the call
    len,         \* the len variable
    last_cont,   \* uint32_t last_cont
    next_bytes,  \* vec_t next_bytes
    pc,          \* "entry", "loop" (at the loop condition), "done"
    ret,         \* the value returned, -1 before the return
    loads        \* the addresses of the vector loads made so far

vars == <<mem, data, len, last_cont, next_bytes, pc, ret, loads>>

\* The call z_validate_utf8(data, len): the locals are not set yet (last_cont and
\* next_bytes are written by Enter before they are read).
Init ==
    /\ \/ \E w \in Windows : \E k \in Offsets : \E n \in Lens(w, k) : mem = Place(w, k) /\ len = n
       \/ \E u \in Units : \E s \in 0..(Len(u) - 1) : \E c \in 1..MaxChunks : mem = Fill(u, s) /\ len = W * c
       \/ mem = Place(<<97>>, 0) /\ len = 0
    /\ data = 0
    /\ last_cont = {}
    /\ next_bytes = mm256_set1_epi8(0)
    /\ pc = "entry"
    /\ ret = -1
    /\ loads = {}

\* Lines 145-151: last_cont = 0; next_bytes = v_shift_left(*(vec_t *)data, zero).
Enter ==
    /\ pc = "entry"
    /\ last_cont' = {}
    /\ next_bytes' = v_shift_left(VecLoad(mem, data), mm256_set1_epi8(0))
    /\ loads' = loads \cup {data}
    /\ pc' = "loop"
    /\ UNCHANGED <<mem, data, len, ret>>

\* Lines 154-160: a chunk with no high bit and no carry is skipped.
AsciiSkip ==
    /\ pc = "loop" /\ len > 0
    /\ AsciiOnly(VecLoad(mem, data), last_cont)
    /\ loads' = loads \cup {data}
    /\ len' = len - W
    /\ data' = data + W
    /\ UNCHANGED <<mem, last_cont, next_bytes, pc, ret>>

\* Lines 162-196: the continuation bytes do not match the required ones.
ContFail ==
    /\ pc = "loop" /\ len > 0
    /\ ~AsciiOnly(VecLoad(mem, data), last_cont)
    /\ ~ContOk(VecLoad(mem, data), last_cont)
    /\ loads' = loads \cup {data}
    /\ ret' = 0
    /\ pc' = "done"
    /\ UNCHANGED <<mem, data, len, last_cont, next_bytes>>

\* Lines 198-217: the nibble lookups find an error bit common to all three.
LookupFail ==
    /\ pc = "loop" /\ len > 0
    /\ ~AsciiOnly(VecLoad(mem, data), last_cont)
    /\ ContOk(VecLoad(mem, data), last_cont)
    /\ ~LookupOk(VecLoad(mem, data), next_bytes)
    /\ loads' = loads \cup {data}
    /\ ret' = 0
    /\ pc' = "done"
    /\ UNCHANGED <<mem, data, len, last_cont, next_bytes>>

\* Lines 219-221 and the loop's step: the chunk passed both checks.
ChunkPass ==
    /\ pc = "loop" /\ len > 0
    /\ ~AsciiOnly(VecLoad(mem, data), last_cont)
    /\ ContOk(VecLoad(mem, data), last_cont)
    /\ LookupOk(VecLoad(mem, data), next_bytes)
    /\ last_cont' = CarryOut(VecLoad(mem, data), last_cont)
    /\ next_bytes' = VecLoad(mem, data + 31)
    /\ loads' = loads \cup {data, data + 31}
    /\ len' = len - W
    /\ data' = data + W
    /\ UNCHANGED <<mem, pc, ret>>

\* Line 225: the loop is over.
Return ==
    /\ pc = "loop" /\ len <= 0
    /\ ret' = FinalVerdict(last_cont)
    /\ pc' = "done"
    /\ UNCHANGED <<mem, data, len, last_cont, next_bytes, loads>>

Next == Enter \/ AsciiSkip \/ ContFail \/ LookupFail \/ ChunkPass \/ Return

Spec == Init /\ [][Next]_vars

(***************************************************************************)
(* UTF-8 by the byte values, for stating the properties.                   *)
(***************************************************************************)
\* The length the caller passed: len and data move together by W.
BufLen == data + len

\* Byte i of the caller's memory, data[i] of the call.
Mem(i) == At(mem, i)

IsCont(b) == b >= 128 /\ b <= 191

\* Continuation bytes a lead byte asks for: C0..DF one, E0..EF two, F0..FF three.
Need(b) == IF b >= 240 THEN 3 ELSE IF b >= 224 THEN 2 ELSE IF b >= 192 THEN 1 ELSE 0

\* Bytes p+1 .. p+c of the buffer exist and are continuation bytes.
Trail(p, c, n) == p + c < n /\ \A q \in (p + 1)..(p + c) : IsCont(Mem(q))

\* Bytes i .. n-1 of memory are the encoding of Unicode scalar values.
RECURSIVE ValidFrom(_, _)
ValidFrom(i, n) ==
    IF i >= n THEN TRUE
    ELSE LET b == Mem(i) IN
         IF b < 128 THEN ValidFrom(i + 1, n)
         ELSE IF b >= 194 /\ b <= 223 THEN Trail(i, 1, n) /\ ValidFrom(i + 2, n)
         ELSE IF b >= 224 /\ b <= 239 THEN
              /\ Trail(i, 2, n)
              /\ (b = 224 => Mem(i + 1) >= 160)
              /\ (b = 237 => Mem(i + 1) <= 159)
              /\ ValidFrom(i + 3, n)
         ELSE IF b >= 240 /\ b <= 244 THEN
              /\ Trail(i, 3, n)
              /\ (b = 240 => Mem(i + 1) >= 144)
              /\ (b = 244 => Mem(i + 1) <= 143)
              /\ ValidFrom(i + 4, n)
         ELSE FALSE

\* Position i must hold a continuation byte: one of the three bytes before it is a lead
\* byte whose sequence reaches i.
Required(i) == \E p \in (i - 3)..(i - 1) : p >= 0 /\ Need(Mem(p)) >= i - p

\* Inside the buffer the continuation bytes are not exactly the required positions.
Mismatch == \E i \in 0..(BufLen - 1) : IsCont(Mem(i)) # Required(i)

\* The buffer holds an overlong encoding.
HasOverlong ==
    \E i \in 0..(BufLen - 2) :
        \/ Mem(i) \in {192, 193} /\ IsCont(Mem(i + 1))
        \/ Mem(i) = 224 /\ Mem(i + 1) >= 128 /\ Mem(i + 1) <= 159
        \/ Mem(i) = 240 /\ Mem(i + 1) >= 128 /\ Mem(i + 1) <= 143

\* The buffer holds the encoding of a surrogate or of a code point above U+10FFFF.
HasNonScalar ==
    \E i \in 0..(BufLen - 1) :
        \/ Mem(i) >= 245
        \/ i + 1 < BufLen /\ Mem(i) = 237 /\ Mem(i + 1) >= 160 /\ Mem(i + 1) <= 191
        \/ i + 1 < BufLen /\ Mem(i) = 244 /\ Mem(i + 1) >= 144 /\ Mem(i + 1) <= 191

\* The buffer ends in a lead byte followed by fewer continuation bytes than it asks for.
Truncated ==
    \E p \in (BufLen - 3)..(BufLen - 1) :
        /\ p >= 0
        /\ Need(Mem(p)) > BufLen - 1 - p
        /\ \A q \in (p + 1)..(BufLen - 1) : IsCont(Mem(q))

\* The memory with k ASCII bytes put before it (and ASCII after it).
Prepend(k) == [j \in 1..(MemSize + 2 * W) |-> IF j - 1 >= k /\ j - 1 - k < MemSize THEN Mem(j - 1 - k) ELSE 97]

\* The chunk about to be examined, and whether its checks run.
Chunk == VecLoad(mem, data)

ChunkMasks == SetMasks(Chunk)

AtChunk == pc = "loop" /\ len > 0

(***************************************************************************)
(* The properties.                                                         *)
(***************************************************************************)
\* C1: a buffer that is the UTF-8 encoding of Unicode scalar values, of any length,
\* makes z_validate_utf8 return 1.
C1_ValidAccepted == pc = "done" /\ ValidFrom(0, BufLen) => ret = 1

\* C2: a buffer that holds an overlong encoding (C0/C1 lead, E0 80..9F, F0 80..8F)
\* makes z_validate_utf8 return 0.
C2_OverlongRejected == pc = "done" /\ HasOverlong => ret = 0

\* C3: a buffer that holds, in any chunk, a surrogate encoding (ED A0..BF), F4 90..BF
\* or a lead byte F5..FF makes z_validate_utf8 return 0.
C3_NonScalarRejected == pc = "done" /\ HasNonScalar => ret = 0

\* C4: a buffer in which the continuation bytes differ from the positions the lead
\* bytes require, at a position inside the buffer, makes z_validate_utf8 return 0.
C4_MismatchRejected == pc = "done" /\ Mismatch => ret = 0

\* The mismatch was found across a chunk boundary: the last byte of the first chunk is
\* a lead byte, the first byte of the second chunk is no continuation byte, and the
\* call returned 0 in the second chunk.
C4_Witness == pc = "done" /\ ret = 0 /\ data = W /\ len > 0 /\ Need(Mem(W - 1)) >= 1 /\ ~IsCont(Mem(W)) /\ Mismatch

\* C5: a buffer that ends in a truncated multi-byte sequence makes z_validate_utf8
\* return 0, whatever the memory after the buffer holds.
C5_TruncatedRejected == pc = "done" /\ BufLen >= 1 /\ Truncated => ret = 0

\* C6: every vector load reads bytes of data[0 .. len-1] only.
C6_ReadsInBounds == \A a \in loads : a >= 0 /\ a + W <= BufLen

\* C7: the verdict on the buffer is the verdict on the same buffer with k ASCII bytes
\* before it, for every k up to a chunk.
C7_AlignmentIndependent == pc = "done" => \A k \in 1..W : z_validate_utf8(Prepend(k), BufLen + k) = ret

\* C8: when the nibble lookup runs for a chunk, next_bytes holds the last byte of the
\* chunk before (0 for the first chunk) and then bytes 0..30 of the chunk.
C8_LookaheadAligned ==
    AtChunk /\ ~AsciiOnly(Chunk, last_cont) /\ ContOk(Chunk, last_cont)
        => next_bytes = [j \in 1..W |-> LET i == j - 1 IN IF i > 0 THEN Mem(data + i - 1) ELSE IF data = 0 THEN 0 ELSE Mem(data - 1)]

\* The required-continuation mask merged by bitwise OR in place of the additions.
ReqOr(S, lc) == lc \cup ShiftedSet(S, 1) \cup ShiftedSet(S, 2) \cup ShiftedSet(S, 3)

\* The loop with the OR merge.
RECURSIVE LoopOr(_, _, _, _, _)
LoopOr(m, n, d, lc, nb) ==
    IF n <= 0 THEN FinalVerdict(lc)
    ELSE IF AsciiOnly(VecLoad(m, d), lc) THEN LoopOr(m, n - W, d + W, lc, nb)
    ELSE LET S == SetMasks(VecLoad(m, d)) IN
         IF ContMask(S) # Low32(ReqOr(S, lc)) THEN 0
         ELSE IF ~LookupOk(VecLoad(m, d), nb) THEN 0
         ELSE LoopOr(m, n - W, d + W, Shr32(ReqOr(S, lc)), VecLoad(m, d + 31))

\* C9: in a chunk where the sum differs from the OR the continuation check fails with
\* either merge, and the call returns what it would return with the OR merge.
C9_AddAsOr ==
    /\ AtChunk /\ ~AsciiOnly(Chunk, last_cont) /\ Req(ChunkMasks, last_cont) # ReqOr(ChunkMasks, last_cont)
           => ContMask(ChunkMasks) # Low32(Req(ChunkMasks, last_cont)) /\ ContMask(ChunkMasks) # Low32(ReqOr(ChunkMasks, last_cont))
    /\ pc = "done" => ret = LoopOr(mem, BufLen, 0, {}, v_shift_left(VecLoad(mem, 0), mm256_set1_epi8(0)))

\* A chunk after the first, entered with a carry, in which an addition carried.
C9_Witness == AtChunk /\ data = W /\ last_cont # {} /\ Req(ChunkMasks, last_cont) # ReqOr(ChunkMasks, last_cont)

\* The continuation positions of the chunk at data that the lead bytes of the chunk
\* before it ask for.
Owed == {i \in 0..2 : data >= W /\ \E p \in Lanes : Need(Mem(data - W + p)) >= W + i - p}

\* C10: at the start of a chunk iteration last_cont is exactly what the lead bytes of
\* the chunk before owe to this one; it is 0 at the first chunk and after an ASCII
\* chunk, and always one of 0, 1, 3, 7.
C10_CarryExact ==
    AtChunk =>
        /\ last_cont = Owed
        /\ MaskVal(last_cont) \in {0, 1, 3, 7}
        /\ (data = 0 => last_cont = {})
        /\ (data >= W /\ (\A p \in Lanes : Mem(data - W + p) < 128) => last_cont = {})

\* The second chunk is entered owing three continuation bytes to a lead byte F0..FF at
\* the end of the first.
C10_Witness == AtChunk /\ data = W /\ MaskVal(last_cont) = 7 /\ Need(Mem(W - 1)) = 3

\* The two renderings of the function agree: the steps return what the loop computes.
StepsAreLoop == pc = "done" => ret = z_validate_utf8(mem, BufLen)

=============================================================================
